---- MODULE Spec2Model ----
(***************************************************************************)
(* The reading-session recorder of useReadingAnalytics                     *)
(* (src/src/hooks/use-reading-stats.ts) and the aggregate store it writes  *)
(* (src/src/lib/analytics-storage.ts).                                     *)
(*                                                                         *)
(* Time is in milliseconds.  Every handler of the hook is one action; the  *)
(* React effects a handler's state change re-runs (page tracking, timer    *)
(* re-arming) are part of the action.  saveCurrentSession is asynchronous: *)
(* its synchronous prefix runs inside the triggering action, and each of   *)
(* its seven store operations is one later step of a "flight".             *)
(***************************************************************************)
EXTENDS Integers, Sequences, FiniteSets, TLC

\* ------------------------------------------------------------------------
\* Program constants
\* ------------------------------------------------------------------------
MIN_SESSION_MS == 5000
PAGE_NOISE_MS == 2000
CLOSING_NOISE_MS == 1000
AUTO_SAVE_INTERVAL == 30000
IDLE_TIMEOUT == 120000
MINUTE_MS == 60000
DAY_MS == 86400000
\* getDay() of 1970-01-01, a Thursday (0 is Sunday)
EPOCH_GETDAY == 4

\* ------------------------------------------------------------------------
\* Bounds of the model
\* ------------------------------------------------------------------------
MaxSteps == 5
MaxInFlight == 2
MaxFailures == 1
MaxDay == 4
WalkLength == 7

Docs == {"A", "B"}
FirstDoc == "A"
Pages == {1, 2}
TickSet == {1000, 4000, 30000}

NoDoc == "none"
NULL == -1
\* analyticsDbPromise: null, or the promise indexedDB.open has resolved
DbNull == "null"
DbOpen == "open"
\* no storage operation has been run on its own
NoExit == [op |-> "none"]

\* last-page-storage: a Record<string, number>, NULL where a key is missing
EmptyMap == [d \in Docs |-> NULL]
\* cache = null
NoCache == [loaded |-> FALSE, map |-> EmptyMap]
\* localStorage.getItem(STORAGE_KEY) === null
NoItem == [kind |-> "absent", map |-> EmptyMap]
\* debounceTimers[documentId] === undefined
NoTimer == 0
\* no call of last-page-storage has been made for the document
NoOp == [op |-> "none"]
sessionId == "s1"
\* calendar days are numbered from 1970-01-01
Days == 0..MaxDay

VARIABLES
    now,                    \* Date.now()
    currentDocument,        \* usePdf().currentDocument?.id
    currentPage,            \* usePdf().currentPage
    isPaused,
    startTime,
    history,
    pauseStartRef,
    lastPageParams,
    accumulatedPauseTime,
    currentDocumentIdRef,
    autoSaveDue,            \* next expiry of the setInterval, NULL when cleared
    idleDue,                \* expiry of the idle setTimeout, NULL when cleared
    tzOffset,               \* local time minus UTC, in ms
    flights,                \* saveCurrentSession calls suspended at a store operation
    sessions,               \* object store "sessions"
    document_stats,         \* object store "document_stats"
    daily_summaries,        \* object store "daily_summaries"
    global,                 \* object store "global"
    analyticsDbPromise,     \* the cached database promise, DbNull before a successful open
    exit,                   \* how the last storage operation run on its own ended
    cache,                  \* last-page-storage: the in-memory map, or null
    localStorage,           \* the item under "better-pdf-last-pages"
    debounceTimers,         \* handle of the pending debounce timer of each document
    timeouts,               \* the timeouts the browser holds for last-page-storage
    nextTimerId,            \* the handle the next setTimeout returns
    \* history variables, read only by the properties
    steps,                  \* clock steps and events of the user or the PDF provider so far
    invoked,                \* calls of saveCurrentSession so far
    overlapped,             \* a finalize has started while another was pending
    failures,               \* store operations that failed so far
    uncovered,              \* failed finalizes no successful finalize has covered yet
    activeMs,               \* non-paused time elapsed since startTime
    pageActiveMs,           \* non-paused time elapsed since lastPageParams.time
    discardedMs,            \* dwell the page-change filter has dropped since startTime
    totalActiveMs,          \* non-paused time elapsed since the first document
    window,                 \* an idle expiry that met an autosave tick of the same instant
    lastOp                  \* the last call of last-page-storage made for each document

recorderVars == <<isPaused, startTime, history, pauseStartRef, lastPageParams,
                  accumulatedPauseTime, currentDocumentIdRef>>
storeVars == <<sessions, document_stats, daily_summaries, global>>
callVars == <<analyticsDbPromise, exit>>
lastPageVars == <<cache, localStorage, debounceTimers, timeouts, nextTimerId, lastOp>>
vars == <<now, currentDocument, currentPage, isPaused, startTime, history,
          pauseStartRef, lastPageParams, accumulatedPauseTime,
          currentDocumentIdRef, autoSaveDue, idleDue, tzOffset, flights, sessions,
          document_stats, daily_summaries, global, analyticsDbPromise, exit,
          steps, invoked, overlapped,
          failures, uncovered, activeMs, pageActiveMs, discardedMs, totalActiveMs,
          window, cache, localStorage, debounceTimers, timeouts, nextTimerId,
          lastOp>>

\* ------------------------------------------------------------------------
\* Helpers
\* ------------------------------------------------------------------------
\* new Date().toISOString().split("T")[0]: the UTC calendar day
getTodayString == now \div DAY_MS

\* yesterday.setDate(yesterday.getDate() - 1); yesterday.toISOString()...
yesterdayStr == (now - DAY_MS) \div DAY_MS

\* new Date().getDay(): the local day of the week, 0 is Sunday
getDay == (((now + tzOffset) \div DAY_MS) + EPOCH_GETDAY) % 7

\* JavaScript truthiness of `number | null`
Truthy(x) == x # NULL /\ x # 0

Max(a, b) == IF a >= b THEN a ELSE b
Min(a, b) == IF a <= b THEN a ELSE b

RECURSIVE SumDurations(_)
SumDurations(h) ==
    IF h = <<>> THEN 0 ELSE Head(h).duration + SumDurations(Tail(h))

\* Array.prototype.findIndex, 1-based; 0 when there is none
findIndex(h, p) ==
    IF \E i \in 1..Len(h) : h[i].page = p
    THEN CHOOSE i \in 1..Len(h) :
            /\ h[i].page = p
            /\ \A j \in 1..(i - 1) : h[j].page # p
    ELSE 0

mergeDwell_Append(h, p, d) == Append(h, [page |-> p, duration |-> d])

\* the merge both the page effect and saveCurrentSession perform
mergeDwell(h, p, d) ==
    LET idx == findIndex(h, p) IN
    IF idx > 0
    THEN [h EXCEPT ![idx] = [page |-> p, duration |-> h[idx].duration + d]]
    ELSE Append(h, [page |-> p, duration |-> d])

pauseDuration_FromStart(pstart) == now - startTime

pauseDuration(pstart) == now - pstart

getSessionDuration_Live(paused, pstart) ==
    now - startTime - accumulatedPauseTime

getSessionDuration(paused, pstart) ==
    IF paused /\ Truthy(pstart)
    THEN pstart - startTime - accumulatedPauseTime
    ELSE now - startTime - accumulatedPauseTime

getCurrentPageDuration(paused, pstart) ==
    IF paused /\ Truthy(pstart)
    THEN pstart - lastPageParams.time
    ELSE now - lastPageParams.time


\* ------------------------------------------------------------------------
\* saveCurrentSession: the synchronous prefix
\* ------------------------------------------------------------------------
tooShort_ClosingThreshold(sessionDuration) == sessionDuration < CLOSING_NOISE_MS

tooShort(sessionDuration) == sessionDuration < MIN_SESSION_MS

completeHistory_NoClosing(hist, sessionDuration, currentPageDuration) ==
    IF Len(hist) = 0
    THEN <<[page |-> lastPageParams.page, duration |-> sessionDuration]>>
    ELSE hist

completeHistory_AtLeast(hist, sessionDuration, currentPageDuration) ==
    LET currentPageNum == lastPageParams.page
        folded == IF currentPageDuration >= CLOSING_NOISE_MS
                  THEN mergeDwell(hist, currentPageNum, currentPageDuration)
                  ELSE hist
    IN  IF Len(folded) = 0
        THEN <<[page |-> currentPageNum, duration |-> sessionDuration]>>
        ELSE folded

completeHistory_DwellFallback(hist, sessionDuration, currentPageDuration) ==
    LET currentPageNum == lastPageParams.page
        folded == IF currentPageDuration > CLOSING_NOISE_MS
                  THEN mergeDwell(hist, currentPageNum, currentPageDuration)
                  ELSE hist
    IN  IF Len(folded) = 0
        THEN <<[page |-> currentPageNum, duration |-> currentPageDuration]>>
        ELSE folded

\* completeHistory: the ledger plus the in-progress page's closing sample
completeHistory(hist, sessionDuration, currentPageDuration) ==
    LET currentPageNum == lastPageParams.page
        folded == IF currentPageDuration > CLOSING_NOISE_MS
                  THEN mergeDwell(hist, currentPageNum, currentPageDuration)
                  ELSE hist
    IN  IF Len(folded) = 0
        THEN <<[page |-> currentPageNum, duration |-> sessionDuration]>>
        ELSE folded

RECURSIVE MinDuration(_)
MinDuration(h) ==
    IF Len(h) = 1 THEN h[1].duration
    ELSE Min(Head(h).duration, MinDuration(Tail(h)))

RECURSIVE MaxDuration(_)
MaxDuration(h) ==
    IF Len(h) = 1 THEN h[1].duration
    ELSE Max(Head(h).duration, MaxDuration(Tail(h)))

\* the ReadingSessionRecord saveCurrentSession builds; `paused` is the
\* isPaused its closure captured, `pstart` the value of pauseStartRef.current
\* at the call.  avgTimePerPageMs (a fraction) is not represented.
buildSession(paused, pstart, hist) ==
    LET sessionDuration == getSessionDuration(paused, pstart)
        complete == completeHistory(hist, sessionDuration,
                                    getCurrentPageDuration(paused, pstart))
    IN  [id |-> sessionId,
         documentId |-> currentDocumentIdRef,
         startedAt |-> startTime,
         endedAt |-> now,
         totalDurationMs |-> sessionDuration,
         pagesRead |-> Cardinality({complete[i].page : i \in 1..Len(complete)}),
         pageHistory |-> [i \in 1..Len(complete) |->
                            [page |-> complete[i].page,
                             durationMs |-> complete[i].duration,
                             visitCount |-> 1]],
         fastestPageMs |-> MinDuration(complete),
         slowestPageMs |-> MaxDuration(complete)]

newFlight(session, trig) ==
    [pc |-> "saveSession", session |-> session, read |-> {},
     today |-> NULL, trigger |-> trig]

\* a call of saveCurrentSession from a handler: either an early return or a
\* new flight suspended at its first store operation
saveCurrentSession(paused, pstart, hist, trig) ==
    /\ invoked' = invoked + 1
    /\ IF currentDocumentIdRef = NoDoc
       THEN UNCHANGED <<flights, overlapped>>
       ELSE IF tooShort(getSessionDuration(paused, pstart))
            THEN UNCHANGED <<flights, overlapped>>
            ELSE /\ Len(flights) < MaxInFlight
                 /\ flights' = Append(flights,
                                      newFlight(buildSession(paused, pstart, hist), trig))
                 /\ overlapped' = (overlapped \/ flights # <<>>)

\* ------------------------------------------------------------------------
\* Effects re-run by a handler's state change
\* ------------------------------------------------------------------------
trackPage_KeepCursor(doc, paused, page, hist, lpp) ==
    IF doc = NoDoc \/ paused \/ lpp.page = page
    THEN [history |-> hist, lastPageParams |-> lpp,
          committed |-> FALSE, moved |-> FALSE, discarded |-> 0]
    ELSE LET duration == now - lpp.time IN
         IF duration > PAGE_NOISE_MS
         THEN [history |-> mergeDwell(hist, lpp.page, duration),
               lastPageParams |-> [page |-> page, time |-> now],
               committed |-> TRUE, moved |-> TRUE, discarded |-> 0]
         ELSE [history |-> hist, lastPageParams |-> lpp,
               committed |-> FALSE, moved |-> FALSE, discarded |-> 0]

\* the page-tracking effect, given the state the handler leaves behind
trackPage(doc, paused, page, hist, lpp) ==
    IF doc = NoDoc \/ paused \/ lpp.page = page
    THEN [history |-> hist, lastPageParams |-> lpp,
          committed |-> FALSE, moved |-> FALSE, discarded |-> 0]
    ELSE LET duration == now - lpp.time IN
         [history |-> IF duration > PAGE_NOISE_MS
                      THEN mergeDwell(hist, lpp.page, duration)
                      ELSE hist,
          lastPageParams |-> [page |-> page, time |-> now],
          committed |-> duration > PAGE_NOISE_MS,
          moved |-> TRUE,
          discarded |-> IF duration > PAGE_NOISE_MS THEN 0 ELSE duration]

armTimers_KeepWhenPaused(restart, paused, doc) ==
    IF doc = NoDoc
    THEN /\ autoSaveDue' = NULL
         /\ idleDue' = NULL
    ELSE IF restart /\ ~paused
         THEN /\ autoSaveDue' = now + AUTO_SAVE_INTERVAL
              /\ idleDue' = now + IDLE_TIMEOUT
         ELSE UNCHANGED <<autoSaveDue, idleDue>>

\* the idle-watchdog and auto-save effects: cleared while paused or without
\* a document, re-armed when one of their dependencies changed
armTimers(restart, paused, doc) ==
    IF paused \/ doc = NoDoc
    THEN /\ autoSaveDue' = NULL
         /\ idleDue' = NULL
    ELSE IF restart \/ autoSaveDue = NULL
         THEN /\ autoSaveDue' = now + AUTO_SAVE_INTERVAL
              /\ idleDue' = now + IDLE_TIMEOUT
         ELSE UNCHANGED <<autoSaveDue, idleDue>>

\* ------------------------------------------------------------------------
\* Init
\* ------------------------------------------------------------------------
\* Date.now() is positive in every run
\* last-page-storage as the module is loaded, on a browser without a stored item
LastPageStorageLoaded ==
    /\ cache = NoCache
    /\ localStorage = NoItem
    /\ debounceTimers = [d \in Docs |-> NoTimer]
    /\ timeouts = {}
    /\ nextTimerId = 1
    /\ lastOp = [d \in Docs |-> NoOp]

Init ==
    /\ now = 1
    /\ currentDocument = NoDoc
    /\ currentPage = 1
    /\ isPaused = TRUE
    /\ startTime = 1
    /\ history = <<>>
    /\ pauseStartRef = NULL
    /\ lastPageParams = [page |-> 1, time |-> 1]
    /\ accumulatedPauseTime = 0
    /\ currentDocumentIdRef = NoDoc
    /\ autoSaveDue = NULL
    /\ idleDue = NULL
    /\ tzOffset = 0
    /\ flights = <<>>
    /\ sessions = {}
    /\ document_stats = [d \in Docs |-> {}]
    /\ daily_summaries = [d \in Days |-> {}]
    /\ global = {}
    \* the dashboard load at mount has opened the database
    /\ analyticsDbPromise = DbOpen
    /\ exit = NoExit
    /\ LastPageStorageLoaded
    /\ steps = 0
    /\ invoked = 0
    /\ overlapped = FALSE
    /\ failures = 0
    /\ uncovered = {}
    /\ activeMs = 0
    /\ pageActiveMs = 0
    /\ discardedMs = 0
    /\ totalActiveMs = 0
    /\ window = {}

OpenDocument_KeepLedger(d, p) ==
    /\ currentDocumentIdRef = NoDoc => d = FirstDoc
    /\ steps < MaxSteps
    /\ steps' = steps + 1
    /\ d # currentDocument
    /\ currentDocument' = d
    /\ currentPage' = p
    /\ IF currentDocumentIdRef # d
       THEN \* new document: fresh session
            /\ currentDocumentIdRef' = d
            /\ startTime' = now
            /\ history' = history
            /\ lastPageParams' = [page |-> p, time |-> now]
            /\ accumulatedPauseTime' = accumulatedPauseTime
            /\ pauseStartRef' = NULL
            /\ isPaused' = FALSE
            /\ activeMs' = 0
            /\ pageActiveMs' = 0
            /\ discardedMs' = 0
       ELSE LET resume == isPaused /\ Truthy(pauseStartRef)
                paused == IF resume THEN FALSE ELSE isPaused
                t == trackPage(d, paused, p, history, lastPageParams)
            IN  /\ accumulatedPauseTime' =
                     IF resume
                     THEN accumulatedPauseTime + pauseDuration(pauseStartRef)
                     ELSE accumulatedPauseTime
                /\ pauseStartRef' = IF resume THEN NULL ELSE pauseStartRef
                /\ isPaused' = paused
                /\ history' = t.history
                /\ lastPageParams' = t.lastPageParams
                /\ pageActiveMs' = IF t.moved THEN 0 ELSE pageActiveMs
                /\ discardedMs' = discardedMs + t.discarded
                /\ UNCHANGED <<currentDocumentIdRef, startTime, activeMs>>
    /\ armTimers(TRUE, isPaused', d)
    /\ UNCHANGED <<lastPageVars, callVars, tzOffset, now, flights, storeVars, invoked, overlapped, failures,
                   uncovered, totalActiveMs, window>>


\* ------------------------------------------------------------------------
\* Handlers of the hook
\* ------------------------------------------------------------------------
\* usePdf() delivers document d, shown at page p: the auto pause/resume
\* effect, then the page-tracking effect and the timer effects.  Documents
\* are interchangeable; the first one ever opened is called FirstDoc.
OpenDocument(d, p) ==
    /\ currentDocumentIdRef = NoDoc => d = FirstDoc
    /\ steps < MaxSteps
    /\ steps' = steps + 1
    /\ d # currentDocument
    /\ currentDocument' = d
    /\ currentPage' = p
    /\ IF currentDocumentIdRef # d
       THEN \* new document: fresh session
            /\ currentDocumentIdRef' = d
            /\ startTime' = now
            /\ history' = <<>>
            /\ lastPageParams' = [page |-> p, time |-> now]
            /\ accumulatedPauseTime' = 0
            /\ pauseStartRef' = NULL
            /\ isPaused' = FALSE
            /\ activeMs' = 0
            /\ pageActiveMs' = 0
            /\ discardedMs' = 0
       ELSE LET resume == isPaused /\ Truthy(pauseStartRef)
                paused == IF resume THEN FALSE ELSE isPaused
                t == trackPage(d, paused, p, history, lastPageParams)
            IN  /\ accumulatedPauseTime' =
                     IF resume
                     THEN accumulatedPauseTime + pauseDuration(pauseStartRef)
                     ELSE accumulatedPauseTime
                /\ pauseStartRef' = IF resume THEN NULL ELSE pauseStartRef
                /\ isPaused' = paused
                /\ history' = t.history
                /\ lastPageParams' = t.lastPageParams
                /\ pageActiveMs' = IF t.moved THEN 0 ELSE pageActiveMs
                /\ discardedMs' = discardedMs + t.discarded
                /\ UNCHANGED <<currentDocumentIdRef, startTime, activeMs>>
    /\ armTimers(TRUE, isPaused', d)
    /\ UNCHANGED <<lastPageVars, callVars, tzOffset, now, flights, storeVars, invoked, overlapped, failures,
                   uncovered, totalActiveMs, window>>

\* usePdf() delivers no document
CloseDocument ==
    /\ steps < MaxSteps
    /\ steps' = steps + 1
    /\ currentDocument # NoDoc
    /\ currentDocument' = NoDoc
    /\ IF ~isPaused
       THEN /\ pauseStartRef' = now
            /\ isPaused' = TRUE
            /\ saveCurrentSession(FALSE, now, history, "close")
       ELSE UNCHANGED <<pauseStartRef, isPaused, flights, invoked, overlapped>>
    /\ armTimers(TRUE, isPaused', NoDoc)
    /\ UNCHANGED <<lastPageVars, callVars, tzOffset, now, currentPage, startTime, history, lastPageParams,
                   accumulatedPauseTime, currentDocumentIdRef, storeVars,
                   failures, uncovered, activeMs, pageActiveMs, discardedMs,
                   totalActiveMs, window>>

\* the current-page start time togglePause leaves on resume
resumePageTime(lpp, pstart) ==
    [lpp EXCEPT !.time = @ + pauseDuration(pstart)]

togglePause ==
    /\ steps < MaxSteps
    /\ steps' = steps + 1
    /\ IF isPaused
       THEN LET shifted == IF Truthy(pauseStartRef)
                           THEN resumePageTime(lastPageParams, pauseStartRef)
                           ELSE lastPageParams
                t == trackPage(currentDocument, FALSE, currentPage, history, shifted)
            IN  /\ accumulatedPauseTime' =
                     IF Truthy(pauseStartRef)
                     THEN accumulatedPauseTime + pauseDuration(pauseStartRef)
                     ELSE accumulatedPauseTime
                /\ pauseStartRef' = NULL
                /\ isPaused' = FALSE
                /\ history' = t.history
                /\ lastPageParams' = t.lastPageParams
                /\ pageActiveMs' = IF t.moved THEN 0 ELSE pageActiveMs
                /\ discardedMs' = discardedMs + t.discarded
                /\ UNCHANGED <<flights, invoked, overlapped>>
       ELSE /\ pauseStartRef' = now
            /\ isPaused' = TRUE
            /\ saveCurrentSession(FALSE, now, history, "pause")
            /\ UNCHANGED <<accumulatedPauseTime, history, lastPageParams,
                           pageActiveMs, discardedMs>>
    /\ armTimers(TRUE, isPaused', currentDocument)
    /\ UNCHANGED <<lastPageVars, callVars, tzOffset, now, currentDocument, currentPage, startTime,
                   currentDocumentIdRef, storeVars, failures,
                   uncovered, activeMs, totalActiveMs, window>>

\* usePdf() delivers another page of the open document
PageChange(p) ==
    /\ steps < MaxSteps
    /\ steps' = steps + 1
    /\ currentDocument # NoDoc
    /\ p # currentPage
    /\ currentPage' = p
    /\ LET t == trackPage(currentDocument, isPaused, p, history, lastPageParams)
       IN  /\ history' = t.history
           /\ lastPageParams' = t.lastPageParams
           /\ pageActiveMs' = IF t.moved THEN 0 ELSE pageActiveMs
           /\ discardedMs' = discardedMs + t.discarded
           /\ armTimers(t.committed, isPaused, currentDocument)
    /\ UNCHANGED <<lastPageVars, callVars, tzOffset, now, currentDocument, isPaused, startTime, pauseStartRef,
                   accumulatedPauseTime, currentDocumentIdRef, flights,
                   storeVars, invoked, overlapped, failures, uncovered, activeMs,
                   totalActiveMs, window>>

AutoSaveTick_Pausing ==
    /\ autoSaveDue # NULL
    /\ now >= autoSaveDue
    /\ pauseStartRef' = now
    /\ isPaused' = TRUE
    /\ saveCurrentSession(FALSE, now, history, "autosave")
    /\ autoSaveDue' = NULL
    /\ idleDue' = idleDue
    /\ UNCHANGED <<lastPageVars, callVars, tzOffset, steps, now, currentDocument, currentPage, startTime, history,
                   lastPageParams, accumulatedPauseTime, currentDocumentIdRef,
                   storeVars, failures, uncovered, activeMs,
                   pageActiveMs, discardedMs, totalActiveMs, window>>

\* the setInterval callback of the auto-save effect
AutoSaveTick ==
    /\ autoSaveDue # NULL
    /\ now >= autoSaveDue
    /\ saveCurrentSession(FALSE, pauseStartRef, history, "autosave")
    /\ autoSaveDue' = autoSaveDue + AUTO_SAVE_INTERVAL
    /\ UNCHANGED <<lastPageVars, callVars, tzOffset, steps, now, currentDocument, currentPage, recorderVars, idleDue,
                   storeVars, failures, uncovered, activeMs,
                   pageActiveMs, discardedMs, totalActiveMs, window>>

\* the setTimeout callback of the idle watchdog
IdleTimeout ==
    /\ idleDue # NULL
    /\ now >= idleDue
    /\ pauseStartRef' = now
    /\ isPaused' = TRUE
    /\ saveCurrentSession(FALSE, now, history, "idle")
    /\ armTimers(TRUE, TRUE, currentDocument)
    /\ window' =
         IF /\ Len(flights) = 1
            /\ flights[1].trigger = "autosave"
            /\ flights[1].pc = "saveSession"
            /\ flights[1].session.endedAt = now
         THEN {[documentId |-> currentDocumentIdRef,
                before |-> IF document_stats[currentDocumentIdRef] = {} THEN 0
                           ELSE (CHOOSE r \in document_stats[currentDocumentIdRef] : TRUE).totalSessionCount,
                invoked |-> invoked',
                failures |-> failures]}
         ELSE window
    /\ UNCHANGED <<lastPageVars, callVars, tzOffset, steps, now, currentDocument, currentPage, startTime, history,
                   lastPageParams, accumulatedPauseTime, currentDocumentIdRef,
                   storeVars, failures, uncovered, activeMs,
                   pageActiveMs, discardedMs, totalActiveMs>>

\* a qualifying input event: resetIdleTimer
Activity ==
    /\ steps < MaxSteps
    /\ steps' = steps + 1
    /\ idleDue # NULL
    /\ idleDue # now + IDLE_TIMEOUT
    /\ idleDue' = now + IDLE_TIMEOUT
    /\ UNCHANGED <<lastPageVars, callVars, tzOffset, now, currentDocument, currentPage, recorderVars,
                   autoSaveDue, flights, storeVars, invoked, overlapped, failures,
                   uncovered, activeMs, pageActiveMs, discardedMs, totalActiveMs, window>>

\* the beforeunload listener
handleUnload ==
    /\ steps < MaxSteps
    /\ steps' = steps + 1
    /\ IF ~isPaused /\ Len(history) > 0
       THEN saveCurrentSession(FALSE, pauseStartRef, history, "unload")
       ELSE UNCHANGED <<flights, invoked, overlapped>>
    /\ UNCHANGED <<lastPageVars, callVars, tzOffset, now, currentDocument, currentPage, recorderVars,
                   autoSaveDue, idleDue, storeVars, failures,
                   uncovered, activeMs, pageActiveMs, discardedMs, totalActiveMs, window>>

\* time passes; an armed timer fires when it is due, and a store operation
\* takes less than the smallest step of the clock
Tick(dt) ==
    /\ steps < MaxSteps
    /\ flights = <<>>
    /\ autoSaveDue # NULL => now + dt <= autoSaveDue
    /\ idleDue # NULL => now + dt <= idleDue
    /\ now' = now + dt
    /\ steps' = steps + 1
    /\ activeMs' = IF isPaused THEN activeMs ELSE activeMs + dt
    /\ pageActiveMs' = IF isPaused THEN pageActiveMs ELSE pageActiveMs + dt
    /\ totalActiveMs' = IF isPaused \/ currentDocumentIdRef = NoDoc
                        THEN totalActiveMs ELSE totalActiveMs + dt
    /\ UNCHANGED <<lastPageVars, callVars, tzOffset, currentDocument, currentPage, recorderVars, autoSaveDue,
                   discardedMs, idleDue, flights, storeVars, invoked, overlapped, failures, uncovered,
                   window>>

\* ------------------------------------------------------------------------
\* saveCurrentSession: the read-merge-write of the aggregates
\* ------------------------------------------------------------------------
TheOne(S) == CHOOSE r \in S : TRUE

RECURSIVE DwellOf(_, _)
DwellOf(pageHistory, p) ==
    IF pageHistory = <<>> THEN 0
    ELSE (IF Head(pageHistory).page = p THEN Head(pageHistory).durationMs ELSE 0)
         + DwellOf(Tail(pageHistory), p)

\* pageHeatmap[key] = (pageHeatmap[key] ?? 0) + ph.durationMs, for every ph
mergeHeatmap(heat, pageHistory) ==
    LET pages == {pageHistory[i].page : i \in 1..Len(pageHistory)} IN
    [p \in (DOMAIN heat) \cup pages |->
        (IF p \in DOMAIN heat THEN heat[p] ELSE 0) + DwellOf(pageHistory, p)]

updatedStats_Overwrite(existingStats, session) ==
    LET pageHeatmap == mergeHeatmap(<<>>, session.pageHistory)
    IN  [totalReadingTimeMs |-> session.totalDurationMs,
         totalSessionCount |-> 1,
         totalPagesRead |-> session.pagesRead,
         uniquePagesRead |-> Cardinality(DOMAIN pageHeatmap),
         pageHeatmap |-> pageHeatmap]

\* updatedStats; the averages and the two timestamps are not represented
updatedStats(existingStats, session) ==
    LET old == IF existingStats = {}
               THEN [totalReadingTimeMs |-> 0, totalSessionCount |-> 0,
                     totalPagesRead |-> 0, pageHeatmap |-> <<>>]
               ELSE TheOne(existingStats)
        pageHeatmap == mergeHeatmap(old.pageHeatmap, session.pageHistory)
    IN  [totalReadingTimeMs |-> old.totalReadingTimeMs + session.totalDurationMs,
         totalSessionCount |-> old.totalSessionCount + 1,
         totalPagesRead |-> old.totalPagesRead + session.pagesRead,
         uniquePagesRead |-> Cardinality(DOMAIN pageHeatmap),
         pageHeatmap |-> pageHeatmap]

updatedDaily(existingDaily, session, today) ==
    LET old == IF existingDaily = {}
               THEN [totalReadingTimeMs |-> 0, totalPagesRead |-> 0,
                     sessionCount |-> 0, documentsRead |-> {}]
               ELSE TheOne(existingDaily)
    IN  [date |-> today,
         totalReadingTimeMs |-> old.totalReadingTimeMs + session.totalDurationMs,
         totalPagesRead |-> old.totalPagesRead + session.pagesRead,
         sessionCount |-> old.sessionCount + 1,
         documentsRead |-> old.documentsRead \cup {session.documentId}]

\* the record getGlobalAnalytics returns when the store holds none
defaultAnalytics ==
    [totalLifetimeReadingMs |-> 0, totalLifetimePagesRead |-> 0,
     totalLifetimeSessions |-> 0, longestSessionMs |-> 0,
     longestStreak |-> 0, currentStreak |-> 0,
     lastActiveDate |-> getTodayString,
     weeklyData |-> <<0, 0, 0, 0, 0, 0, 0>>]

newCurrentStreak_SameDay(g, today) ==
    IF g.lastActiveDate = yesterdayStr \/ g.lastActiveDate = today
    THEN g.currentStreak + 1
    ELSE 1

newCurrentStreak_Increment(g, today) ==
    IF g.lastActiveDate # today THEN g.currentStreak + 1 ELSE g.currentStreak

\* the streak a finalize stores
newCurrentStreak(g, today) ==
    IF g.lastActiveDate = yesterdayStr
    THEN g.currentStreak + 1
    ELSE IF g.lastActiveDate # today
         THEN 1
         ELSE g.currentStreak

adjustedDay_SundayFirst == getDay

\* Monday-first index of the local day of the week, 0-based as in the code
adjustedDay == IF getDay = 0 THEN 6 ELSE getDay - 1

\* Math.round of a non-negative quotient: halves round up
round(n, d) == (2 * n + d) \div (2 * d)

\* weeklyData[adjustedDay] = (weeklyData[adjustedDay] ?? 0) + Math.round(...);
\* the sequence is 1-based
addWeekly(weeklyData, sessionDuration) ==
    [weeklyData EXCEPT ![adjustedDay + 1] = @ + round(sessionDuration, MINUTE_MS)]

updatedGlobal_KeepLongest(g, session, today) ==
    [totalLifetimeReadingMs |-> g.totalLifetimeReadingMs + session.totalDurationMs,
     totalLifetimePagesRead |-> g.totalLifetimePagesRead + session.pagesRead,
     totalLifetimeSessions |-> g.totalLifetimeSessions + 1,
     longestSessionMs |-> Max(g.longestSessionMs, session.totalDurationMs),
     longestStreak |-> g.longestStreak,
     currentStreak |-> newCurrentStreak(g, today),
     lastActiveDate |-> today,
     weeklyData |-> addWeekly(g.weeklyData, session.totalDurationMs)]

\* updatedGlobal; the two averages are copied unchanged and not represented
updatedGlobal(g, session, today) ==
    [totalLifetimeReadingMs |-> g.totalLifetimeReadingMs + session.totalDurationMs,
     totalLifetimePagesRead |-> g.totalLifetimePagesRead + session.pagesRead,
     totalLifetimeSessions |-> g.totalLifetimeSessions + 1,
     longestSessionMs |-> Max(g.longestSessionMs, session.totalDurationMs),
     longestStreak |-> Max(g.longestStreak, newCurrentStreak(g, today)),
     currentStreak |-> newCurrentStreak(g, today),
     lastActiveDate |-> today,
     weeklyData |-> addWeekly(g.weeklyData, session.totalDurationMs)]

\* the reading interval a session record stands for, and whether a record
\* includes it
Interval(session) ==
    [documentId |-> session.documentId, startedAt |-> session.startedAt,
     totalDurationMs |-> session.totalDurationMs]

Covers(session, x) ==
    /\ session.documentId = x.documentId
    /\ session.startedAt = x.startedAt
    /\ session.totalDurationMs >= x.totalDurationMs

RemoveAt(q, i) == SubSeq(q, 1, i - 1) \o SubSeq(q, i + 1, Len(q))

Advance(i, pc, read) ==
    flights' = [flights EXCEPT ![i].pc = pc, ![i].read = read]

AtPc(i, pc) == i \in 1..Len(flights) /\ flights[i].pc = pc

flightFrame == <<lastPageVars, callVars, tzOffset, now, currentDocument, currentPage, recorderVars, autoSaveDue,
                 idleDue, steps, invoked, overlapped, activeMs, pageActiveMs, discardedMs,
                 totalActiveMs, window>>

saveSession_Add(i) ==
    /\ AtPc(i, "saveSession")
    /\ sessions' = sessions \cup {flights[i].session}
    /\ Advance(i, "getDocumentStats", {})
    /\ UNCHANGED <<flightFrame, document_stats, daily_summaries, global,
                   failures, uncovered>>

\* storage.saveSession: put keyed by id
saveSession(i) ==
    /\ AtPc(i, "saveSession")
    /\ sessions' = {s \in sessions : s.id # flights[i].session.id}
                       \cup {flights[i].session}
    /\ Advance(i, "getDocumentStats", {})
    /\ UNCHANGED <<flightFrame, document_stats, daily_summaries, global,
                   failures, uncovered>>

getDocumentStats(i) ==
    /\ AtPc(i, "getDocumentStats")
    /\ Advance(i, "updateDocumentStats",
               document_stats[flights[i].session.documentId])
    /\ UNCHANGED <<flightFrame, storeVars, failures, uncovered>>

updateDocumentStats(i) ==
    /\ AtPc(i, "updateDocumentStats")
    /\ document_stats' =
         [document_stats EXCEPT ![flights[i].session.documentId] =
             {updatedStats(flights[i].read, flights[i].session)}]
    /\ Advance(i, "getDailySummary", {})
    /\ UNCHANGED <<flightFrame, sessions, daily_summaries, global, failures,
                   uncovered>>

getDailySummary(i) ==
    /\ AtPc(i, "getDailySummary")
    /\ flights' = [flights EXCEPT ![i].pc = "updateDailySummary",
                                  ![i].today = getTodayString,
                                  ![i].read = daily_summaries[getTodayString]]
    /\ UNCHANGED <<flightFrame, storeVars, failures, uncovered>>

updateDailySummary(i) ==
    /\ AtPc(i, "updateDailySummary")
    /\ daily_summaries' =
         [daily_summaries EXCEPT ![flights[i].today] =
             {updatedDaily(flights[i].read, flights[i].session, flights[i].today)}]
    /\ Advance(i, "getGlobalAnalytics", {})
    /\ UNCHANGED <<flightFrame, sessions, document_stats, global, failures,
                   uncovered>>

getGlobalAnalytics(i) ==
    /\ AtPc(i, "getGlobalAnalytics")
    /\ Advance(i, "updateGlobalAnalytics",
               IF global = {} THEN {defaultAnalytics} ELSE global)
    /\ UNCHANGED <<flightFrame, storeVars, failures, uncovered>>

\* the last store operation; loadDashboard only reads
updateGlobalAnalytics(i) ==
    /\ AtPc(i, "updateGlobalAnalytics")
    /\ global' = {updatedGlobal(TheOne(flights[i].read), flights[i].session,
                               flights[i].today)}
    /\ flights' = RemoveAt(flights, i)
    /\ uncovered' = {x \in uncovered : ~Covers(flights[i].session, x)}
    /\ UNCHANGED <<flightFrame, sessions, document_stats, daily_summaries,
                   failures>>

\* the recorder as a record
recorder ==
    [isPaused |-> isPaused, startTime |-> startTime, history |-> history,
     pauseStartRef |-> pauseStartRef, lastPageParams |-> lastPageParams,
     accumulatedPauseTime |-> accumulatedPauseTime,
     currentDocumentIdRef |-> currentDocumentIdRef]

\* the recorder after the catch block of saveCurrentSession, which only logs
catchError(rec) == rec

\* a store operation of flight i fails with an AnalyticsStorageError: the
\* rest of the sequence is skipped and the catch block logs the error
storeFails(i) ==
    /\ i \in 1..Len(flights)
    /\ failures < MaxFailures
    /\ failures' = failures + 1
    /\ uncovered' = {x \in uncovered : ~Covers(flights[i].session, x)}
                       \cup {Interval(flights[i].session)}
    /\ flights' = RemoveAt(flights, i)
    /\ LET after == catchError(recorder) IN
        /\ isPaused' = after.isPaused
        /\ startTime' = after.startTime
        /\ history' = after.history
        /\ pauseStartRef' = after.pauseStartRef
        /\ lastPageParams' = after.lastPageParams
        /\ accumulatedPauseTime' = after.accumulatedPauseTime
        /\ currentDocumentIdRef' = after.currentDocumentIdRef
    /\ UNCHANGED <<lastPageVars, callVars, tzOffset, steps, now, currentDocument, currentPage, autoSaveDue, idleDue,
                   storeVars, invoked, overlapped, activeMs, pageActiveMs, discardedMs,
                   totalActiveMs, window>>

\* ------------------------------------------------------------------------
\* Specification
\* ------------------------------------------------------------------------
Next ==
    \/ \E d \in Docs, p \in Pages : OpenDocument(d, p)
    \/ CloseDocument
    \/ togglePause
    \/ \E p \in Pages : PageChange(p)
    \/ AutoSaveTick
    \/ IdleTimeout
    \/ Activity
    \/ handleUnload
    \/ \E dt \in TickSet : Tick(dt)
    \/ \E i \in 1..MaxInFlight : saveSession(i)
    \/ \E i \in 1..MaxInFlight : getDocumentStats(i)
    \/ \E i \in 1..MaxInFlight : updateDocumentStats(i)
    \/ \E i \in 1..MaxInFlight : getDailySummary(i)
    \/ \E i \in 1..MaxInFlight : updateDailySummary(i)
    \/ \E i \in 1..MaxInFlight : getGlobalAnalytics(i)
    \/ \E i \in 1..MaxInFlight : updateGlobalAnalytics(i)
    \/ \E i \in 1..MaxInFlight : storeFails(i)

Spec == Init /\ [][Next]_vars

\* ------------------------------------------------------------------------
\* Finalizes over several calendar days
\* ------------------------------------------------------------------------
\* local time minus UTC: UTC itself and UTC-5
TzSet == {0, 0 - 5 * 60 * MINUTE_MS}

\* 01:00 UTC on day 1 (a Friday; still Thursday at UTC-5)
StartOfReading == DAY_MS + 60 * MINUTE_MS

\* reading sessions in progress that no timer has finalized yet: no page
\* was shown for AUTO_SAVE_INTERVAL without a change, the current page 2
\* since 20000 ms
OpenSessions ==
    { [duration |-> 45000,
       history |-> <<[page |-> 1, duration |-> 25000]>>],
      [duration |-> 90000,
       history |-> <<[page |-> 1, duration |-> 45000],
                     [page |-> 2, duration |-> 25000]>>] }

DaySteps == {1, 2}

\* a first installation (empty stores) on which FirstDoc is being read
InitReading ==
    /\ now = StartOfReading
    /\ tzOffset \in TzSet
    /\ currentDocument = FirstDoc
    /\ currentDocumentIdRef = FirstDoc
    /\ currentPage = 2
    /\ isPaused = FALSE
    /\ pauseStartRef = NULL
    /\ accumulatedPauseTime = 0
    /\ \E r \in OpenSessions :
        /\ startTime = now - r.duration
        /\ history = r.history
        /\ activeMs = r.duration
        /\ totalActiveMs = r.duration
    /\ lastPageParams = [page |-> 2, time |-> now - 20000]
    /\ pageActiveMs = 20000
    /\ discardedMs = 0
    /\ autoSaveDue = lastPageParams.time + AUTO_SAVE_INTERVAL
    /\ idleDue = lastPageParams.time + IDLE_TIMEOUT
    /\ flights = <<>>
    /\ sessions = {}
    /\ document_stats = [d \in Docs |-> {}]
    /\ daily_summaries = [d \in Days |-> {}]
    /\ global = {}
    /\ analyticsDbPromise = DbOpen
    /\ exit = NoExit
    /\ LastPageStorageLoaded
    /\ steps = 0
    /\ invoked = 0
    /\ overlapped = FALSE
    /\ failures = 0
    /\ uncovered = {}
    /\ window = {}

\* the reader stays paused for k days
DayPasses(k) ==
    /\ isPaused
    /\ flights = <<>>
    /\ getTodayString + k <= MaxDay
    /\ now' = now + k * DAY_MS
    /\ UNCHANGED <<lastPageVars, callVars, tzOffset, currentDocument, currentPage, recorderVars,
                   autoSaveDue, idleDue, flights, storeVars, steps, invoked,
                   overlapped, failures, uncovered, activeMs, pageActiveMs,
                   discardedMs, totalActiveMs, window>>

NextDays ==
    \/ togglePause
    \/ \E k \in DaySteps : DayPasses(k)
    \/ \E i \in 1..MaxInFlight : saveSession(i)
    \/ \E i \in 1..MaxInFlight : getDocumentStats(i)
    \/ \E i \in 1..MaxInFlight : updateDocumentStats(i)
    \/ \E i \in 1..MaxInFlight : getDailySummary(i)
    \/ \E i \in 1..MaxInFlight : updateDailySummary(i)
    \/ \E i \in 1..MaxInFlight : getGlobalAnalytics(i)
    \/ \E i \in 1..MaxInFlight : updateGlobalAnalytics(i)
    \/ \E i \in 1..MaxInFlight : storeFails(i)

SpecDays == InitReading /\ [][NextDays]_vars

\* ------------------------------------------------------------------------
\* A walk through the pages of one document
\* ------------------------------------------------------------------------
WalkPages == {1, 2, 3}
WalkDwells == {1000, 2000, 3000, 4000, 6000}

\* as Init; a walk of WalkLength steps is explored whatever MaxSteps is
InitWalk ==
    /\ now = 1
    /\ currentDocument = NoDoc
    /\ currentPage = 1
    /\ isPaused = TRUE
    /\ startTime = 1
    /\ history = <<>>
    /\ pauseStartRef = NULL
    /\ lastPageParams = [page |-> 1, time |-> 1]
    /\ accumulatedPauseTime = 0
    /\ currentDocumentIdRef = NoDoc
    /\ autoSaveDue = NULL
    /\ idleDue = NULL
    /\ tzOffset = 0
    /\ flights = <<>>
    /\ sessions = {}
    /\ document_stats = [d \in Docs |-> {}]
    /\ daily_summaries = [d \in Days |-> {}]
    /\ global = {}
    /\ analyticsDbPromise = DbOpen
    /\ exit = NoExit
    /\ LastPageStorageLoaded
    /\ steps = MaxSteps - WalkLength
    /\ invoked = 0
    /\ overlapped = FALSE
    /\ failures = 0
    /\ uncovered = {}
    /\ activeMs = 0
    /\ pageActiveMs = 0
    /\ discardedMs = 0
    /\ totalActiveMs = 0
    /\ window = {}

NextWalk ==
    \/ OpenDocument(FirstDoc, 1)
    \/ \E p \in WalkPages : PageChange(p)
    \/ \E dt \in WalkDwells : Tick(dt)
    \/ togglePause
    \/ AutoSaveTick
    \/ \E i \in 1..MaxInFlight : saveSession(i)
    \/ \E i \in 1..MaxInFlight : getDocumentStats(i)
    \/ \E i \in 1..MaxInFlight : updateDocumentStats(i)
    \/ \E i \in 1..MaxInFlight : getDailySummary(i)
    \/ \E i \in 1..MaxInFlight : updateDailySummary(i)
    \/ \E i \in 1..MaxInFlight : getGlobalAnalytics(i)
    \/ \E i \in 1..MaxInFlight : updateGlobalAnalytics(i)

SpecWalk == InitWalk /\ [][NextWalk]_vars

\* ------------------------------------------------------------------------
\* Properties
\* ------------------------------------------------------------------------
Quiescent == flights = <<>>

totalSessionCount(d) ==
    IF document_stats[d] = {} THEN 0
    ELSE TheOne(document_stats[d]).totalSessionCount

totalReadingTimeMs(d) ==
    IF document_stats[d] = {} THEN 0
    ELSE TheOne(document_stats[d]).totalReadingTimeMs

RECURSIVE SumOver(_, _)
SumOver(f, S) ==
    IF S = {} THEN 0
    ELSE LET x == CHOOSE y \in S : TRUE IN f[x] + SumOver(f, S \ {x})

SumDocumentSessions == SumOver([d \in Docs |-> totalSessionCount(d)], Docs)
SumDocumentTime == SumOver([d \in Docs |-> totalReadingTimeMs(d)], Docs)
SumDailySessions ==
    SumOver([d \in DOMAIN daily_summaries |->
                IF daily_summaries[d] = {} THEN 0
                ELSE TheOne(daily_summaries[d]).sessionCount],
            DOMAIN daily_summaries)
SumDailyTime ==
    SumOver([d \in DOMAIN daily_summaries |->
                IF daily_summaries[d] = {} THEN 0
                ELSE TheOne(daily_summaries[d]).totalReadingTimeMs],
            DOMAIN daily_summaries)
GlobalSessions ==
    IF global = {} THEN 0 ELSE TheOne(global).totalLifetimeSessions
GlobalTime ==
    IF global = {} THEN 0 ELSE TheOne(global).totalLifetimeReadingMs

\* C1: at most one finalize per session id performs store operations at a
\* time: a finalize that started while an earlier one of the same session id
\* is still pending has performed no store operation.
C1_SingleFlight ==
    \A i, j \in 1..Len(flights) :
        (i < j /\ flights[i].session.id = flights[j].session.id)
            => flights[j].pc = "saveSession"

\* C2: between a finalize's read of an aggregate record and its write-back
\* no other finalize writes that record: the value a pending finalize holds
\* from its read is still the value in the store.
C2_NoInterveningWrite ==
    \A i \in 1..Len(flights) :
        /\ flights[i].pc = "updateDocumentStats"
             => flights[i].read = document_stats[flights[i].session.documentId]
        /\ flights[i].pc = "updateDailySummary"
             => flights[i].read = daily_summaries[flights[i].today]
        /\ flights[i].pc = "updateGlobalAnalytics"
             => flights[i].read = (IF global = {} THEN {defaultAnalytics} ELSE global)

\* C3: when the idle watchdog expires at the instant of an autosave tick of
\* the same session, then once both finalizes have ended (and nothing else
\* was triggered and no store operation ever failed) the document's
\* totalSessionCount has grown by exactly 1.
C3_OnePassPerWindow ==
    \A w \in window :
        (Quiescent /\ invoked = w.invoked /\ failures = 0)
            => totalSessionCount(w.documentId) = w.before + 1

\* C4: no reading time is counted twice: as long as finalizes did not
\* overlap and no store operation failed, the reading time aggregated per
\* document, per day and globally never exceeds the non-paused time that has
\* elapsed.
C4_NoDoubleCount ==
    (~overlapped /\ failures = 0) =>
        /\ SumDocumentTime <= totalActiveMs
        /\ SumDailyTime <= totalActiveMs
        /\ GlobalTime <= totalActiveMs

\* C5: a finalize invoked while the session's non-paused duration is below
\* 5000 ms starts no store operation: the four collections and the set of
\* pending finalizes are left as they were.
C5_ShortSessionNotPersisted ==
    [][(invoked' = invoked + 1 /\ activeMs < MIN_SESSION_MS)
          => UNCHANGED <<flights, sessions, document_stats, daily_summaries,
                         global>>]_vars

C5_Witness ==
    /\ invoked >= 1
    /\ currentDocumentIdRef # NoDoc
    /\ isPaused
    /\ pauseStartRef # NULL
    /\ activeMs > 0
    /\ activeMs < MIN_SESSION_MS
    /\ flights = <<>>
    /\ failures = 0
    /\ sessions = {}
    /\ global = {}

\* C6: a storage failure loses no reading time: the interval of a failed
\* finalize stays in the recorder (same document, same startTime, at least
\* its duration) or in a pending finalize until a successful finalize has
\* persisted it.
C6_FailedIntervalKept ==
    \A x \in uncovered :
        \/ /\ currentDocumentIdRef = x.documentId
           /\ startTime = x.startedAt
           /\ getSessionDuration(isPaused, pauseStartRef) >= x.totalDurationMs
        \/ \E i \in 1..Len(flights) : Covers(flights[i].session, x)

\* no step of a finalize, failed or successful, changes the recorder, and
\* every finalize that starts records the whole non-paused time since
\* startTime
FinalizeLeavesRecorder ==
    [][/\ (invoked' = invoked /\ flights' # flights) => UNCHANGED recorderVars
       /\ Len(flights') > Len(flights)
            => flights'[Len(flights')].session.totalDurationMs = activeMs]_vars

\* C7: aggregation is atomic across collections: in every quiescent state
\* (finalizes never having overlapped) the session counts of document_stats,
\* daily_summaries and global are equal.
C7_AtomicAggregation ==
    (Quiescent /\ ~overlapped) =>
        /\ SumDocumentSessions = SumDailySessions
        /\ SumDailySessions = GlobalSessions

\* C8: the reported session duration is the elapsed time minus every pause
\* interval, i.e. the non-paused time since startTime, after any number of
\* pause/resume cycles on either resume path.
C8_DurationExcludesPauses ==
    currentDocumentIdRef # NoDoc
        => getSessionDuration(isPaused, pauseStartRef) = activeMs

C8_Witness ==
    /\ currentDocumentIdRef # NoDoc
    /\ ~isPaused
    /\ accumulatedPauseTime > 0
    /\ activeMs > 0
    /\ now - startTime > activeMs

\* C9: between a pause and the next resume the session duration does not
\* move with the clock and is never negative.
C9_FrozenWhilePaused ==
    [][(isPaused /\ isPaused' /\ pauseStartRef # NULL
           /\ pauseStartRef' = pauseStartRef /\ startTime' = startTime)
          => /\ getSessionDuration(isPaused, pauseStartRef)' =
                  getSessionDuration(isPaused, pauseStartRef)
             /\ getSessionDuration(isPaused, pauseStartRef) >= 0
             /\ getSessionDuration(isPaused, pauseStartRef) =
                  pauseStartRef - startTime - accumulatedPauseTime]_vars

C9_Witness ==
    /\ isPaused
    /\ pauseStartRef # NULL
    /\ currentDocumentIdRef # NoDoc
    /\ now > pauseStartRef
    /\ getSessionDuration(isPaused, pauseStartRef) > 0

\* C10: the in-progress page's dwell contains no paused time: after every
\* resume the current-page duration is the non-paused time spent on the page.
C10_PageDwellExcludesPauses ==
    currentDocumentIdRef # NoDoc
        => getCurrentPageDuration(isPaused, pauseStartRef) = pageActiveMs

RECURSIVE SumDwell(_)
SumDwell(pageHistory) ==
    IF pageHistory = <<>> THEN 0
    ELSE Head(pageHistory).durationMs + SumDwell(Tail(pageHistory))

\* the dwell of the in-progress page that the closing filter of
\* saveCurrentSession drops
closingDiscarded(paused, pstart) ==
    IF getCurrentPageDuration(paused, pstart) > CLOSING_NOISE_MS
    THEN 0
    ELSE getCurrentPageDuration(paused, pstart)

\* C11: in the session record a finalize builds at any moment of an active
\* session that is long enough to be saved, the page dwells plus the dwell
\* dropped by the two noise filters add up to totalDurationMs; in particular
\* the page dwells never exceed totalDurationMs.
C11_LedgerEqualsActiveTime ==
    (currentDocument # NoDoc /\ ~isPaused
       /\ ~tooShort(getSessionDuration(FALSE, pauseStartRef)))
    => LET session == buildSession(FALSE, pauseStartRef, history) IN
        /\ SumDwell(session.pageHistory) + discardedMs
              + closingDiscarded(FALSE, pauseStartRef) = session.totalDurationMs
        /\ SumDwell(session.pageHistory) <= session.totalDurationMs

\* C12: when the open document changes or is closed while an active session
\* long enough to be saved is outstanding, that step starts a finalize of the
\* outstanding session: its record carries the old document's id, the whole
\* non-paused time since startTime and the in-progress page's dwell.
C12_SwitchFinalizesFirst ==
    [][(currentDocument # NoDoc /\ currentDocument' # currentDocument
          /\ ~isPaused /\ ~tooShort(activeMs))
       => /\ Len(flights') = Len(flights) + 1
          /\ LET session == flights'[Len(flights')].session IN
              /\ session.documentId = currentDocument
              /\ session.totalDurationMs = activeMs
              /\ pageActiveMs > CLOSING_NOISE_MS
                   => \E i \in 1..Len(session.pageHistory) :
                        /\ session.pageHistory[i].page = lastPageParams.page
                        /\ session.pageHistory[i].durationMs >= pageActiveMs]_vars

\* C13: session ids separate logical sessions: a record put into the
\* sessions store never has the id of a stored record of another document,
\* and it has the id of a stored record of the same session (same document,
\* same startedAt).
C13_NewIdPerDocument ==
    [][\A s \in sessions, t \in sessions' \ sessions :
          /\ s.id = t.id => s.documentId = t.documentId
          /\ (s.documentId = t.documentId /\ s.startedAt = t.startedAt)
               => s.id = t.id]_vars

\* C14: the sessions store never holds two records with the same id: a
\* finalize of an id that is already stored replaces the record.
C14_OneRecordPerId ==
    \A s, t \in sessions : s.id = t.id => s = t

C14_Witness ==
    /\ Cardinality(sessions) = 1
    /\ \E d \in Docs : totalSessionCount(d) >= 2
    /\ \E s \in sessions : s.endedAt - s.startedAt > AUTO_SAVE_INTERVAL

\* the prior DocumentStats a finalize merges into: the record it read, or the
\* zero defaults
priorStats(read) ==
    IF read = {}
    THEN [totalReadingTimeMs |-> 0, totalSessionCount |-> 0,
          totalPagesRead |-> 0, pageHeatmap |-> <<>>]
    ELSE TheOne(read)

\* C15: DocumentStats is merged additively: the step that writes the
\* document's record stores the prior record plus the session's duration,
\* one more session, the session's pages and its per-page dwells, with
\* uniquePagesRead the number of heatmap keys; the records of the other
\* documents are unchanged; and for finalizes that run one after the other
\* the prior record is the stored one, so the totals are sums.
C15_AdditiveDocumentStats ==
    [][document_stats' # document_stats
       => \E i \in 1..Len(flights) :
            /\ flights[i].pc = "updateDocumentStats"
            /\ Len(flights') = Len(flights)
            /\ flights'[i].pc = "getDailySummary"
            /\ LET session == flights[i].session
                   d == session.documentId
                   S == priorStats(flights[i].read)
                   new == TheOne(document_stats'[d])
               IN  /\ Cardinality(document_stats'[d]) = 1
                   /\ new.totalReadingTimeMs =
                        S.totalReadingTimeMs + session.totalDurationMs
                   /\ new.totalSessionCount = S.totalSessionCount + 1
                   /\ new.totalPagesRead = S.totalPagesRead + session.pagesRead
                   /\ DOMAIN new.pageHeatmap =
                        (DOMAIN S.pageHeatmap)
                          \cup {session.pageHistory[k].page :
                                  k \in 1..Len(session.pageHistory)}
                   /\ \A p \in DOMAIN new.pageHeatmap :
                        new.pageHeatmap[p] =
                          (IF p \in DOMAIN S.pageHeatmap
                           THEN S.pageHeatmap[p] ELSE 0)
                            + DwellOf(session.pageHistory, p)
                   /\ new.uniquePagesRead = Cardinality(DOMAIN new.pageHeatmap)
                   /\ \A e \in Docs \ {d} : document_stats'[e] = document_stats[e]
                   /\ ~overlapped => flights[i].read = document_stats[d]]_vars

C15_Witness ==
    /\ ~overlapped
    /\ failures = 0
    /\ \E d \in Docs :
        /\ totalSessionCount(d) = 2
        /\ totalReadingTimeMs(d) = 3 * AUTO_SAVE_INTERVAL
        /\ \E e \in Docs \ {d} : totalSessionCount(e) = 0

C18_LongestBoundsCurrent ==
    \A g \in global : g.longestStreak >= g.currentStreak

C18_Witness ==
    /\ overlapped
    /\ \E g \in global : g.longestStreak >= 1 /\ g.currentStreak >= 1

\* C19: every stored GlobalAnalytics record, the one of the first finalize
\* ever included, has currentStreak >= 1.
C19_StreakAtLeastOne ==
    \A g \in global : g.currentStreak >= 1

\* the Monday-first index (0..6) of the local calendar day; day 0 of the
\* epoch is a Thursday
mondayIndex == (((now + tzOffset) \div DAY_MS) + 3) % 7

\* C20: a finalize of duration d adds the whole number of minutes nearest to
\* d / 60000 (halves up) to the entry of the local weekday, Monday first,
\* leaves the other six entries as they were and keeps 7 entries; for
\* finalizes that run one after the other the entries it adds to are the
\* stored ones.
C20_WeeklyBucket ==
    [][global' # global
       => \E i \in 1..Len(flights) :
            /\ flights[i].pc = "updateGlobalAnalytics"
            /\ Len(flights') = Len(flights) - 1
            /\ LET d == flights[i].session.totalDurationMs
                   prior == TheOne(flights[i].read).weeklyData
                   new == TheOne(global').weeklyData
               IN  /\ Len(new) = 7
                   /\ \A k \in 1..7 : k # mondayIndex + 1 => new[k] = prior[k]
                   /\ LET m == new[mondayIndex + 1] - prior[mondayIndex + 1] IN
                        /\ 2 * d >= MINUTE_MS * (2 * m - 1)
                        /\ 2 * d < MINUTE_MS * (2 * m + 1)
                   /\ ~overlapped =>
                        flights[i].read =
                          (IF global = {} THEN {defaultAnalytics} ELSE global)]_vars

C20_Witness ==
    \E g \in global :
        /\ mondayIndex = 6
        /\ g.weeklyData[7] = 2
        /\ g.weeklyData[5] = 2
        /\ g.totalLifetimeSessions = 2

\* the session records that are stored or about to be stored
persistedSessions ==
    sessions \cup {flights[i].session : i \in 1..Len(flights)}

\* C21: every persisted session has pagesRead equal to the number of
\* distinct pages of its pageHistory, and its pageHistory has at most one
\* entry per page.
C21_OneEntryPerPage ==
    \A s \in persistedSessions :
        /\ s.pagesRead =
             Cardinality({s.pageHistory[i].page : i \in 1..Len(s.pageHistory)})
        /\ \A i, j \in 1..Len(s.pageHistory) :
             s.pageHistory[i].page = s.pageHistory[j].page => i = j

C21_Witness ==
    \E s \in sessions :
        /\ Len(history) = 1
        /\ Len(s.pageHistory) = 1
        /\ s.pagesRead = 1
        /\ s.pageHistory[1].page = history[1].page
        /\ s.pageHistory[1].durationMs > history[1].duration

\* C22: visitCount counts the visits whose dwell was committed: when a
\* finalize starts while the reader is back on a page that already has a
\* committed dwell in the ledger, and the new visit's dwell passes the closing
\* filter, the record's entry for that page has visitCount >= 2.
C22_RevisitCounted ==
    [][(Len(flights') > Len(flights)
          /\ findIndex(history, lastPageParams.page) > 0
          /\ pageActiveMs > CLOSING_NOISE_MS)
       => LET session == flights'[Len(flights')].session IN
          \A i \in 1..Len(session.pageHistory) :
              session.pageHistory[i].page = lastPageParams.page
                  => session.pageHistory[i].visitCount >= 2]_vars

\* the dwell the ledger h holds for page p
DwellIn(h, p) ==
    IF findIndex(h, p) > 0 THEN h[findIndex(h, p)].duration ELSE 0

\* C23: a walk through the pages is recorded as walked: leaving a page after
\* more than 2000 ms adds exactly that dwell to the page's entry and changes
\* no other entry, and the record a finalize builds has the non-paused time
\* as totalDurationMs, for every page its ledger dwell plus, for the page in
\* progress, a dwell of more than 1000 ms, and as pagesRead the number of
\* pages with an entry.  (3000 ms on page 1, 4000 ms on page 2, 6000 ms on
\* page 3 and a pause is the walk of the witness.)
C23_WalkIsRecorded ==
    [][/\ (lastPageParams'.page # lastPageParams.page
             /\ currentDocumentIdRef' = currentDocumentIdRef
             /\ currentDocumentIdRef # NoDoc
             /\ pageActiveMs > PAGE_NOISE_MS)
          => \A p \in WalkPages :
               DwellIn(history', p) =
                 DwellIn(history, p)
                   + (IF p = lastPageParams.page THEN pageActiveMs ELSE 0)
       /\ (Len(flights') > Len(flights)
             /\ (history # <<>> \/ pageActiveMs > CLOSING_NOISE_MS))
          => LET session == flights'[Len(flights')].session IN
              /\ session.totalDurationMs = activeMs
              /\ \A p \in WalkPages :
                   DwellOf(session.pageHistory, p) =
                     DwellIn(history, p)
                       + (IF p = lastPageParams.page
                             /\ pageActiveMs > CLOSING_NOISE_MS
                          THEN pageActiveMs ELSE 0)
              /\ session.pagesRead =
                   Cardinality({p \in WalkPages :
                                  DwellOf(session.pageHistory, p) > 0})]_vars

C23_Witness ==
    \E i \in 1..Len(flights) :
        LET session == flights[i].session IN
        /\ flights[i].trigger = "pause"
        /\ accumulatedPauseTime = 0
        /\ session.startedAt = 1
        /\ session.endedAt = 13001
        /\ session.totalDurationMs = 13000
        /\ session.pagesRead = 3
        /\ Len(session.pageHistory) = 3
        /\ \A k \in 1..3 : session.pageHistory[k].page = k
        /\ session.pageHistory[1].durationMs = 3000
        /\ session.pageHistory[2].durationMs = 4000
        /\ session.pageHistory[3].durationMs = 6000

\* a beforeunload notification: the only step that counts as an event and
\* changes neither the clock, the provider's document and page, the recorder
\* nor a timer
isUnload ==
    /\ steps' = steps + 1
    /\ UNCHANGED <<now, currentDocument, currentPage, recorderVars,
                   autoSaveDue, idleDue>>

\* C24: a beforeunload notification received while a document is open and
\* the session is active invokes saveCurrentSession, whatever the ledger holds.
C24_UnloadFinalizes ==
    [][(isUnload /\ currentDocument # NoDoc /\ ~isPaused)
          => invoked' = invoked + 1]_vars

\* a callback of the autosave interval or of the idle timeout: the only steps
\* that call saveCurrentSession without being an event of the user or of the
\* PDF provider
isTimerCallback ==
    /\ invoked' = invoked + 1
    /\ steps' = steps

isAutoSave ==
    /\ isTimerCallback
    /\ idleDue' = idleDue

\* C26: an autosave tick finalizes without pausing: after it the recorder is
\* still active with pauseStartRef unset, accumulatedPauseTime, the history and
\* lastPageParams are unchanged, and while the recorder stays active the
\* session duration grows with the clock.
C26_AutoSaveDoesNotPause ==
    [][/\ isAutoSave =>
            /\ ~isPaused'
            /\ pauseStartRef' = NULL
            /\ UNCHANGED <<accumulatedPauseTime, history, lastPageParams, startTime>>
       /\ (~isPaused /\ ~isPaused' /\ currentDocument # NoDoc
             /\ UNCHANGED <<startTime, accumulatedPauseTime>>)
            => getSessionDuration(FALSE, pauseStartRef)' =
                   getSessionDuration(FALSE, pauseStartRef) + (now' - now)]_vars

C26_Witness ==
    /\ ~isPaused
    /\ invoked = 1
    /\ flights = <<>>
    /\ failures = 0
    /\ \E r \in sessions :
          /\ r.documentId = currentDocumentIdRef
          /\ r.totalDurationMs = AUTO_SAVE_INTERVAL
          /\ getSessionDuration(isPaused, pauseStartRef) > r.totalDurationMs

\* the callback of the idle timeout
isIdleExpiry ==
    /\ isTimerCallback
    /\ idleDue # NULL
    /\ idleDue' = NULL

\* a qualifying input event reaching handleActivity
isActivity ==
    /\ idleDue' # idleDue
    /\ UNCHANGED <<now, currentDocument, currentPage, recorderVars, autoSaveDue, invoked>>

\* the parts of the idle watchdog that concern the expiry and the input
\* events: the expiry pauses at the expiry time and calls saveCurrentSession
\* once, and an input event opens a full new window
IdleExpiryPauses ==
    [][/\ isIdleExpiry =>
            /\ now = idleDue
            /\ isPaused'
            /\ pauseStartRef' = idleDue
            /\ invoked' = invoked + 1
       /\ isActivity => idleDue' = now + IDLE_TIMEOUT]_vars

\* C27: while the recorder is active with a document the inactivity window
\* runs from the last qualifying input event: only an input event moves the
\* expiry, to 120000 ms after that event, and the expiry pauses the recorder
\* at the expiry time with one call of saveCurrentSession.
C27_IdleWindowFromLastInput ==
    [][/\ isIdleExpiry =>
            /\ now = idleDue
            /\ isPaused'
            /\ pauseStartRef' = idleDue
            /\ invoked' = invoked + 1
       /\ isActivity => idleDue' = now + IDLE_TIMEOUT
       /\ (/\ ~isPaused /\ ~isPaused'
           /\ currentDocument # NoDoc /\ currentDocument' = currentDocument
           /\ idleDue' # idleDue)
            => isActivity]_vars

\* C28: while the recorder stays active on a document the autosave is
\* periodic: the next autosave stays due at most 30000 ms after the session
\* became active or after the previous autosave, so nothing but the autosave
\* tick itself moves it, page changes included.
C28_AutoSavePeriodic ==
    [][(/\ ~isPaused /\ ~isPaused'
        /\ currentDocument # NoDoc /\ currentDocument' = currentDocument
        /\ autoSaveDue # NULL
        /\ ~isAutoSave)
         => autoSaveDue' = autoSaveDue]_vars

\* the reads of an existing aggregate in saveCurrentSession, and the write
\* that follows each of them
ReadOps == {"getDocumentStats", "getDailySummary", "getGlobalAnalytics"}

writeAfter(pc) ==
    CASE pc = "getDocumentStats" -> "updateDocumentStats"
      [] pc = "getDailySummary" -> "updateDailySummary"
      [] pc = "getGlobalAnalytics" -> "updateGlobalAnalytics"

\* the read at which finalize i is suspended fails
readFails(i) ==
    /\ i \in 1..Len(flights)
    /\ flights[i].pc \in ReadOps
    /\ failures' = failures + 1
    /\ \A j \in 1..Len(flights) :
          flights' = RemoveAt(flights, j) => flights[j] = flights[i]

\* C29: when the read of an existing aggregate fails during a finalize, the
\* finalize goes on to the write of that aggregate with the aggregate taken
\* as absent.
C29_FailedReadTakenAsAbsent ==
    [][\A i \in 1..MaxInFlight :
          readFails(i) => flights' = [flights EXCEPT ![i].pc = writeAfter(flights[i].pc),
                                          ![i].read = {}]]_vars

\* ------------------------------------------------------------------------
\* The storage service: each operation run on its own, with the faults of
\* the database
\* ------------------------------------------------------------------------
AnalyticsStorageError(message, cause) ==
    [_tag |-> "AnalyticsStorageError", message |-> message, cause |-> cause]

\* a settled promise
resolved(value) == [status |-> "resolved", value |-> value]
rejected(reason) == [status |-> "rejected", reason |-> reason]

tryPromise_Unwrapped(promise, message) ==
    IF promise.status = "rejected"
    THEN [_tag |-> "Die", defect |-> promise.reason]
    ELSE [_tag |-> "Success", value |-> promise.value]

\* Effect.tryPromise({try, catch}): a rejection becomes a failure holding
\* the value catch builds from the reason
tryPromise(promise, message) ==
    IF promise.status = "rejected"
    THEN [_tag |-> "Failure", error |-> AnalyticsStorageError(message, promise.reason)]
    ELSE [_tag |-> "Success", value |-> promise.value]

\* the reasons getAnalyticsDatabase rejects with, and the errors of a request
OpenReasons == {"Error: Failed to open analytics database"}
RequestReasons == {"QuotaExceededError", "InvalidStateError", "UnknownError"}
NoFault == [at |-> "none", reason |-> "none"]
Faults ==
    {NoFault}
      \cup {[at |-> "open", reason |-> c] : c \in OpenReasons}
      \cup {[at |-> "request", reason |-> c] : c \in RequestReasons}

OpenMessage == "Failed to open analytics database"

\* getAnalyticsDatabase: the cached promise, or the outcome of indexedDB.open
getAnalyticsDatabase(fault) ==
    IF analyticsDbPromise # DbNull THEN resolved(analyticsDbPromise)
    ELSE IF fault.at = "open" THEN rejected(fault.reason)
    ELSE resolved(DbOpen)

\* the body every operation shares: open the database, then run one request
storageOperation(fault, value, message) ==
    LET db == tryPromise(getAnalyticsDatabase(fault), OpenMessage)
    IN  IF db._tag # "Success" THEN db
        ELSE tryPromise(IF fault.at = "request" THEN rejected(fault.reason)
                        ELSE resolved(value),
                        message)

\* the database can only fail to open while no open has succeeded
canHappen(fault) == fault.at = "open" => analyticsDbPromise = DbNull

storageReturns(op, fault, result) ==
    /\ exit' = [op |-> op, fault |-> fault, result |-> result]
    /\ analyticsDbPromise' =
         IF getAnalyticsDatabase(fault).status = "resolved" THEN DbOpen ELSE DbNull

storageFrame ==
    <<lastPageVars, tzOffset, now, currentDocument, currentPage, recorderVars, autoSaveDue,
      idleDue, flights, steps, invoked, overlapped, failures, uncovered, activeMs,
      pageActiveMs, discardedMs, totalActiveMs, window>>

\* store.put on a store whose key path is "id"
put(store, record) == {r \in store : r.id # record.id} \cup {record}

RECURSIVE SortByStartedAtDesc(_)
SortByStartedAtDesc(S) ==
    IF S = {} THEN <<>>
    ELSE LET first == CHOOSE r \in S : \A q \in S : q.startedAt <= r.startedAt
         IN  <<first>> \o SortByStartedAtDesc(S \ {first})

last7Days == {getTodayString - i : i \in 0..6}

AnalyticsStorage_saveSession(session, fault) ==
    /\ canHappen(fault)
    /\ LET result == storageOperation(fault, "void", "Failed to save session")
       IN  /\ storageReturns("saveSession", fault, result)
           /\ sessions' = IF result._tag = "Success" THEN put(sessions, session)
                          ELSE sessions
    /\ UNCHANGED <<storageFrame, document_stats, daily_summaries, global>>

AnalyticsStorage_getSessionsForDocument(documentId, fault) ==
    /\ canHappen(fault)
    /\ storageReturns("getSessionsForDocument", fault,
         storageOperation(fault, {r \in sessions : r.documentId = documentId},
                          "Failed to get sessions"))
    /\ UNCHANGED <<storageFrame, storeVars>>

AnalyticsStorage_getRecentSessions(limit, fault) ==
    /\ canHappen(fault)
    /\ storageReturns("getRecentSessions", fault,
         storageOperation(fault,
                          SubSeq(SortByStartedAtDesc(sessions), 1,
                                 Min(limit, Cardinality(sessions))),
                          "Failed to get sessions"))
    /\ UNCHANGED <<storageFrame, storeVars>>

AnalyticsStorage_getDocumentStats(documentId, fault) ==
    /\ canHappen(fault)
    /\ storageReturns("getDocumentStats", fault,
         storageOperation(fault, document_stats[documentId],
                          "Failed to get document stats"))
    /\ UNCHANGED <<storageFrame, storeVars>>

AnalyticsStorage_updateDocumentStats(documentId, stats, fault) ==
    /\ canHappen(fault)
    /\ LET result == storageOperation(fault, "void", "Failed to update document stats")
       IN  /\ storageReturns("updateDocumentStats", fault, result)
           /\ document_stats' =
                IF result._tag = "Success"
                THEN [document_stats EXCEPT ![documentId] = {stats}]
                ELSE document_stats
    /\ UNCHANGED <<storageFrame, sessions, daily_summaries, global>>

AnalyticsStorage_getAllDocumentStats(fault) ==
    /\ canHappen(fault)
    /\ storageReturns("getAllDocumentStats", fault,
         storageOperation(fault, UNION {document_stats[d] : d \in Docs},
                          "Failed to get all document stats"))
    /\ UNCHANGED <<storageFrame, storeVars>>

AnalyticsStorage_getDailySummary(date, fault) ==
    /\ canHappen(fault)
    /\ storageReturns("getDailySummary", fault,
         storageOperation(fault, daily_summaries[date],
                          "Failed to get daily summary"))
    /\ UNCHANGED <<storageFrame, storeVars>>

AnalyticsStorage_updateDailySummary(date, summary, fault) ==
    /\ canHappen(fault)
    /\ LET result == storageOperation(fault, "void", "Failed to update daily summary")
       IN  /\ storageReturns("updateDailySummary", fault, result)
           /\ daily_summaries' =
                IF result._tag = "Success"
                THEN [daily_summaries EXCEPT ![date] = {summary}]
                ELSE daily_summaries
    /\ UNCHANGED <<storageFrame, sessions, document_stats, global>>

AnalyticsStorage_getWeeklySummaries(fault) ==
    /\ canHappen(fault)
    /\ storageReturns("getWeeklySummaries", fault,
         storageOperation(fault,
                          UNION {daily_summaries[d] : d \in Days \cap last7Days},
                          "Failed to get weekly summaries"))
    /\ UNCHANGED <<storageFrame, storeVars>>

AnalyticsStorage_getGlobalAnalytics(fault) ==
    /\ canHappen(fault)
    /\ storageReturns("getGlobalAnalytics", fault,
         storageOperation(fault,
                          IF global # {} THEN TheOne(global) ELSE defaultAnalytics,
                          "Failed to get global analytics"))
    /\ UNCHANGED <<storageFrame, storeVars>>

AnalyticsStorage_updateGlobalAnalytics(analytics, fault) ==
    /\ canHappen(fault)
    /\ LET result == storageOperation(fault, "void", "Failed to update global analytics")
       IN  /\ storageReturns("updateGlobalAnalytics", fault, result)
           /\ global' = IF result._tag = "Success" THEN {analytics} ELSE global
    /\ UNCHANGED <<storageFrame, sessions, document_stats, daily_summaries>>

\* the records the operations are called with
SampleIds == {"s1", "s2"}
SampleDurations == {6000, 9000}
SampleLimits == {1, 2}

SampleSessions ==
    {[id |-> id, documentId |-> FirstDoc, startedAt |-> t, endedAt |-> 2 * t,
      totalDurationMs |-> t, pagesRead |-> 1,
      pageHistory |-> <<[page |-> 1, durationMs |-> t, visitCount |-> 1]>>,
      fastestPageMs |-> t, slowestPageMs |-> t] :
        id \in SampleIds, t \in SampleDurations}

\* the module is loaded and nothing has opened the database yet
InitStore ==
    /\ now = 1
    /\ currentDocument = NoDoc
    /\ currentPage = 1
    /\ isPaused = TRUE
    /\ startTime = 1
    /\ history = <<>>
    /\ pauseStartRef = NULL
    /\ lastPageParams = [page |-> 1, time |-> 1]
    /\ accumulatedPauseTime = 0
    /\ currentDocumentIdRef = NoDoc
    /\ autoSaveDue = NULL
    /\ idleDue = NULL
    /\ tzOffset = 0
    /\ flights = <<>>
    /\ sessions = {}
    /\ document_stats = [d \in Docs |-> {}]
    /\ daily_summaries = [d \in Days |-> {}]
    /\ global = {}
    /\ analyticsDbPromise = DbNull
    /\ exit = NoExit
    /\ LastPageStorageLoaded
    /\ steps = 0
    /\ invoked = 0
    /\ overlapped = FALSE
    /\ failures = 0
    /\ uncovered = {}
    /\ activeMs = 0
    /\ pageActiveMs = 0
    /\ discardedMs = 0
    /\ totalActiveMs = 0
    /\ window = {}

NextStore ==
    \E fault \in Faults :
        \/ \E s \in SampleSessions : AnalyticsStorage_saveSession(s, fault)
        \/ AnalyticsStorage_getSessionsForDocument(FirstDoc, fault)
        \/ \E limit \in SampleLimits : AnalyticsStorage_getRecentSessions(limit, fault)
        \/ AnalyticsStorage_getDocumentStats(FirstDoc, fault)
        \/ \E s \in SampleSessions :
              AnalyticsStorage_updateDocumentStats(
                  FirstDoc, updatedStats({}, s), fault)
        \/ AnalyticsStorage_getAllDocumentStats(fault)
        \/ AnalyticsStorage_getDailySummary(getTodayString, fault)
        \/ \E s \in SampleSessions :
              AnalyticsStorage_updateDailySummary(
                  getTodayString,
                  updatedDaily({}, s, getTodayString),
                  fault)
        \/ AnalyticsStorage_getWeeklySummaries(fault)
        \/ AnalyticsStorage_getGlobalAnalytics(fault)
        \/ \E s \in SampleSessions :
              AnalyticsStorage_updateGlobalAnalytics(
                  updatedGlobal(defaultAnalytics, s, getTodayString), fault)

SpecStore == InitStore /\ [][NextStore]_vars

\* C30: a storage operation on which the database cannot be opened or the
\* request is rejected ends in a failure holding an AnalyticsStorageError with
\* a message and the reason of the rejection as its cause; no operation ends
\* in anything but a success or such a failure.
C30_TypedFailure ==
    exit # NoExit =>
        /\ exit.result._tag \in {"Success", "Failure"}
        /\ exit.fault.at = "none" => exit.result._tag = "Success"
        /\ exit.fault.at # "none" =>
              /\ exit.result._tag = "Failure"
              /\ exit.result.error._tag = "AnalyticsStorageError"
              /\ exit.result.error.message # ""
              /\ exit.fault.at = "open" => exit.result.error.message = OpenMessage
              /\ exit.result.error.cause = exit.fault.reason

C30_Witness ==
    /\ exit # NoExit
    /\ exit.op = "getWeeklySummaries"
    /\ exit.fault.at = "request"
    /\ exit.result._tag = "Failure"
    /\ exit.result.error.cause = "InvalidStateError"
    /\ daily_summaries[getTodayString] # {}
    /\ analyticsDbPromise = DbOpen

\* ------------------------------------------------------------------------
\* last-page-storage: the last read page of each document in localStorage,
\* with a debounced save
\* ------------------------------------------------------------------------
LastPageSet == {2, 3}
DebounceSet == {500}
LastPageTickSet == {200, 300}
\* the item a browser may hold as the module is loaded
StoredItems ==
    {NoItem,
     [kind |-> "json", map |-> [EmptyMap EXCEPT ![FirstDoc] = 3]],
     [kind |-> "corrupt", map |-> EmptyMap]}

\* JSON.stringify of the map and JSON.parse of the item: page numbers are
\* integers, which both write and read unchanged
stringify(map) == [kind |-> "json", map |-> map]

parse(item) == IF item.kind = "json" THEN item.map ELSE EmptyMap

\* getStorageMap: the cache, or else the parsed item, an empty map when the
\* item is missing or does not parse
getStorageMap == IF cache.loaded THEN cache.map ELSE parse(localStorage)

\* getLastPage: map[documentId] ?? 1
getLastPage(documentId) ==
    IF getStorageMap[documentId] = NULL THEN 1 ELSE getStorageMap[documentId]

\* saveStorageMap on the map getStorageMap returned, which is the cache
\* object itself: the caller has changed it in place whether or not setItem
\* throws
saveStorageMap(map, throws) ==
    /\ cache' = [loaded |-> TRUE, map |-> map]
    /\ localStorage' = IF throws THEN localStorage ELSE stringify(map)

saveLastPage(documentId, page, throws) ==
    saveStorageMap([getStorageMap EXCEPT ![documentId] = page], throws)

\* clearTimeout
clearTimeout(pending, id) == {t \in pending : t.id # id}

setTimeout(pending, documentId, page, debounceMs) ==
    pending \cup {[id |-> nextTimerId, documentId |-> documentId, page |-> page,
                   due |-> now + debounceMs]}

lastPageFrame ==
    <<callVars, tzOffset, currentDocument, currentPage, recorderVars,
      autoSaveDue, idleDue, flights, storeVars, invoked, overlapped, failures,
      uncovered, activeMs, pageActiveMs, discardedMs, totalActiveMs, window>>

\* a call of the module counts as a step
lastPageCall ==
    /\ steps < MaxSteps
    /\ steps' = steps + 1
    /\ UNCHANGED <<now, lastPageFrame>>

called(op, documentId, page, debounceMs) ==
    lastOp' = [lastOp EXCEPT ![documentId] =
                 [op |-> op, page |-> page, at |-> now, ms |-> debounceMs,
                  writes |-> 0]]

ExportedSaveLastPage(documentId, page, throws) ==
    /\ lastPageCall
    /\ saveLastPage(documentId, page, throws)
    /\ called("save", documentId, page, 0)
    /\ UNCHANGED <<debounceTimers, timeouts, nextTimerId>>

removeLastPage(documentId, throws) ==
    /\ lastPageCall
    /\ saveStorageMap([getStorageMap EXCEPT ![documentId] = NULL], throws)
    /\ called("remove", documentId, NULL, 0)
    /\ UNCHANGED <<debounceTimers, timeouts, nextTimerId>>

clearAllLastPages ==
    /\ lastPageCall
    /\ localStorage' = NoItem
    /\ cache' = [loaded |-> TRUE, map |-> EmptyMap]
    /\ lastOp' = [d \in Docs |->
                    [op |-> "clear", page |-> NULL, at |-> now, ms |-> 0,
                     writes |-> 0]]
    /\ UNCHANGED <<debounceTimers, timeouts, nextTimerId>>

saveLastPageDebounced_NoClear(documentId, page, debounceMs) ==
    /\ lastPageCall
    /\ timeouts' = setTimeout(timeouts, documentId, page, debounceMs)
    /\ debounceTimers' = [debounceTimers EXCEPT ![documentId] = nextTimerId]
    /\ nextTimerId' = nextTimerId + 1
    /\ called("debounced", documentId, page, debounceMs)
    /\ UNCHANGED <<cache, localStorage>>

saveLastPageDebounced(documentId, page, debounceMs) ==
    /\ lastPageCall
    /\ timeouts' =
         setTimeout(IF Truthy(debounceTimers[documentId])
                    THEN clearTimeout(timeouts, debounceTimers[documentId])
                    ELSE timeouts,
                    documentId, page, debounceMs)
    /\ debounceTimers' = [debounceTimers EXCEPT ![documentId] = nextTimerId]
    /\ nextTimerId' = nextTimerId + 1
    /\ called("debounced", documentId, page, debounceMs)
    /\ UNCHANGED <<cache, localStorage>>

\* the callback saveLastPageDebounced hands to setTimeout
debounceFires(t, throws) ==
    /\ t \in timeouts
    /\ now >= t.due
    /\ timeouts' = timeouts \ {t}
    /\ saveLastPage(t.documentId, t.page, throws)
    /\ debounceTimers' = [debounceTimers EXCEPT ![t.documentId] = NoTimer]
    /\ lastOp' = [lastOp EXCEPT ![t.documentId] =
                    IF @.op = "none" THEN @ ELSE [@ EXCEPT !.writes = @ + 1]]
    /\ UNCHANGED <<now, steps, nextTimerId, lastPageFrame>>

flushLastPage_NoClear(documentId, page, throws) ==
    /\ lastPageCall
    /\ saveLastPage(documentId, page, throws)
    /\ called("flush", documentId, page, 0)
    /\ UNCHANGED <<debounceTimers, timeouts, nextTimerId>>

flushLastPage(documentId, page, throws) ==
    /\ lastPageCall
    /\ IF Truthy(debounceTimers[documentId])
       THEN /\ timeouts' = clearTimeout(timeouts, debounceTimers[documentId])
            /\ debounceTimers' = [debounceTimers EXCEPT ![documentId] = NoTimer]
       ELSE UNCHANGED <<timeouts, debounceTimers>>
    /\ saveLastPage(documentId, page, throws)
    /\ called("flush", documentId, page, 0)
    /\ UNCHANGED nextTimerId

\* a getLastPage that fills the cache
ExportedGetLastPage ==
    /\ ~cache.loaded
    /\ cache' = [loaded |-> TRUE, map |-> getStorageMap]
    /\ UNCHANGED <<now, steps, localStorage, debounceTimers, timeouts, nextTimerId,
                   lastOp, lastPageFrame>>

\* time passes, up to the next timeout
LastPageTick(dt) ==
    /\ steps < MaxSteps
    /\ steps' = steps + 1
    /\ \A t \in timeouts : now + dt <= t.due
    /\ now' = now + dt
    /\ UNCHANGED <<lastPageVars, lastPageFrame>>

InitLastPage ==
    /\ now = 1
    /\ currentDocument = NoDoc
    /\ currentPage = 1
    /\ isPaused = TRUE
    /\ startTime = 1
    /\ history = <<>>
    /\ pauseStartRef = NULL
    /\ lastPageParams = [page |-> 1, time |-> 1]
    /\ accumulatedPauseTime = 0
    /\ currentDocumentIdRef = NoDoc
    /\ autoSaveDue = NULL
    /\ idleDue = NULL
    /\ tzOffset = 0
    /\ flights = <<>>
    /\ sessions = {}
    /\ document_stats = [d \in Docs |-> {}]
    /\ daily_summaries = [d \in Days |-> {}]
    /\ global = {}
    /\ analyticsDbPromise = DbNull
    /\ exit = NoExit
    /\ steps = 0
    /\ invoked = 0
    /\ overlapped = FALSE
    /\ failures = 0
    /\ uncovered = {}
    /\ activeMs = 0
    /\ pageActiveMs = 0
    /\ discardedMs = 0
    /\ totalActiveMs = 0
    /\ window = {}
    /\ cache = NoCache
    /\ localStorage \in StoredItems
    /\ debounceTimers = [d \in Docs |-> NoTimer]
    /\ timeouts = {}
    /\ nextTimerId = 1
    /\ lastOp = [d \in Docs |-> NoOp]

NextLastPage ==
    \/ \E d \in Docs, p \in LastPageSet, ms \in DebounceSet :
          saveLastPageDebounced(d, p, ms)
    \/ \E d \in Docs, p \in LastPageSet, throws \in BOOLEAN :
          \/ flushLastPage(d, p, throws)
          \/ ExportedSaveLastPage(d, p, throws)
    \/ \E d \in Docs, throws \in BOOLEAN : removeLastPage(d, throws)
    \/ clearAllLastPages
    \/ \E t \in timeouts, throws \in BOOLEAN : debounceFires(t, throws)
    \/ ExportedGetLastPage
    \/ \E dt \in LastPageTickSet : LastPageTick(dt)

SpecLastPage == InitLastPage /\ [][NextLastPage]_vars

\* the timeouts pending for a document
timeoutsOf(documentId) == {t \in timeouts : t.documentId = documentId}

\* what a step on another document must leave alone
untouched(documentId) ==
    /\ debounceTimers'[documentId] = debounceTimers[documentId]
    /\ timeoutsOf(documentId)' = timeoutsOf(documentId)
    /\ getLastPage(documentId)' = getLastPage(documentId)

\* C31: debounced saves coalesce per document: while the last call for a
\* document is a saveLastPageDebounced(d, p) not yet written, exactly one
\* timeout is pending for d, due debounceMs after that call and holding p;
\* the write happens once, at that time, and stores p; a debounced call or a
\* write for d leaves the timers and the stored pages of other documents
\* alone.
C31_DebounceCoalesces ==
    [][\A d \in Docs :
         /\ lastOp[d].op = "debounced" =>
              /\ lastOp[d].writes <= 1
              /\ lastOp[d].writes = 0 =>
                    /\ now <= lastOp[d].at + lastOp[d].ms
                    /\ timeoutsOf(d) =
                         {[id |-> debounceTimers[d], documentId |-> d,
                           page |-> lastOp[d].page,
                           due |-> lastOp[d].at + lastOp[d].ms]}
              /\ lastOp[d].writes = 1 => timeoutsOf(d) = {}
         /\ (lastOp[d].op = "debounced" /\ lastOp'[d].op = "debounced"
               /\ lastOp'[d].writes = lastOp[d].writes + 1) =>
              /\ now = lastOp[d].at + lastOp[d].ms
              /\ getLastPage(d)' = lastOp[d].page
         /\ (lastOp'[d] # lastOp[d] /\ lastOp'[d].op = "debounced") =>
              \A e \in Docs \ {d} : untouched(e)]_vars

C31_Witness ==
    \E d \in Docs :
       /\ lastOp[d].op = "debounced"
       /\ lastOp[d].writes = 1
       /\ lastOp[d].at > 1
       /\ nextTimerId = 3
       /\ \A e \in Docs \ {d} : lastOp[e].op = "none"
       /\ debounceTimers[d] = NoTimer
       /\ getLastPage(d) = lastOp[d].page
       /\ now = lastOp[d].at + lastOp[d].ms
       /\ localStorage = stringify(cache.map)

\* C32: from a flushLastPage(d, p) until the next call made for d,
\* getLastPage(d) is p and no timeout is pending for d.
C32_FlushIsFinal ==
    \A d \in Docs :
       lastOp[d].op = "flush" =>
          /\ getLastPage(d) = lastOp[d].page
          /\ timeoutsOf(d) = {}
          /\ debounceTimers[d] = NoTimer

C32_Witness ==
    \E d \in Docs :
       /\ lastOp[d].op = "flush"
       /\ nextTimerId = 2
       /\ \A e \in Docs \ {d} : lastOp[e].op = "none"
       /\ lastOp[d].at > 1
       /\ \A ms \in DebounceSet : lastOp[d].at < 1 + ms /\ now >= lastOp[d].at + ms
       /\ getLastPage(d) = 3

\* the PDF provider reports another page of the open document
isPageChange ==
    /\ currentPage' # currentPage
    /\ currentDocument # NoDoc
    /\ UNCHANGED <<currentDocument, isPaused>>

\* ledger h2 is ledger h with dwell d committed to page p
dwellCommitted(h, h2, p, d) ==
    IF \E i \in 1..Len(h) : h[i].page = p
    THEN /\ Len(h2) = Len(h)
         /\ \A i \in 1..Len(h) :
               /\ h2[i].page = h[i].page
               /\ h2[i].duration = h[i].duration + (IF h[i].page = p THEN d ELSE 0)
    ELSE h2 = Append(h, [page |-> p, duration |-> d])

\* C33: a page change of an active session commits the time since the cursor
\* was set to the previous page if and only if it exceeds 2000 ms, merged into
\* the page's entry or appended, and moves the cursor to the new page at the
\* current time either way; a page change of a paused session changes neither
\* the history nor the cursor.
C33_PageChangeCommits ==
    [][isPageChange =>
         IF isPaused
         THEN UNCHANGED <<history, lastPageParams>>
         ELSE /\ lastPageParams.page # currentPage' =>
                   /\ lastPageParams' = [page |-> currentPage', time |-> now]
                   /\ IF now - lastPageParams.time > PAGE_NOISE_MS
                      THEN dwellCommitted(history, history', lastPageParams.page,
                                          now - lastPageParams.time)
                      ELSE history' = history
              /\ lastPageParams.page = currentPage]_vars

C33_Witness ==
    /\ ~isPaused
    /\ currentDocument # NoDoc
    /\ Len(history) = 1
    /\ history[1].page = 1
    /\ history[1].duration = 4000
    /\ currentPage = 1
    /\ lastPageParams = [page |-> 1, time |-> now]
    /\ discardedMs = 1000

\* a call of saveCurrentSession that builds a session record
startsFinalize == Len(flights') = Len(flights) + 1

\* the pageHistory of a record as a ledger
asLedger(pageHistory) ==
    [i \in 1..Len(pageHistory) |->
        [page |-> pageHistory[i].page, duration |-> pageHistory[i].durationMs]]

\* C34: every finalize builds its record from the history with the time since
\* the cursor was set folded into the current page's entry if and only if it
\* exceeds 1000 ms, and leaves the history and the cursor as they are.
C34_ClosingSample ==
    [][startsFinalize =>
         LET built == asLedger(flights'[Len(flights')].session.pageHistory)
             dwell == now - lastPageParams.time
         IN  /\ UNCHANGED <<history, lastPageParams>>
             /\ IF dwell > CLOSING_NOISE_MS
                THEN dwellCommitted(history, built, lastPageParams.page, dwell)
                ELSE history # <<>> => built = history]_vars

C34_Witness ==
    /\ Len(flights) = 1
    /\ Len(history) = 1
    /\ history[1].page = 1
    /\ lastPageParams.page = 2
    /\ asLedger(flights[1].session.pageHistory)
         = <<history[1], [page |-> 2, duration |-> 4000]>>

\* usePdf() delivers a document other than the tracked one
opensNewDocument ==
    /\ currentDocument' # currentDocument
    /\ currentDocument' # NoDoc
    /\ currentDocument' # currentDocumentIdRef

\* C35: opening a document whose id differs from the tracked one sets
\* startTime to now, empties the history, sets the cursor to the opening page
\* at now, zeroes accumulatedPauseTime, clears pauseStartRef and makes the
\* recorder active, whatever state it was in.
C35_NewDocumentResets ==
    [][opensNewDocument =>
         /\ currentDocumentIdRef' = currentDocument'
         /\ startTime' = now
         /\ history' = <<>>
         /\ lastPageParams' = [page |-> currentPage', time |-> now]
         /\ accumulatedPauseTime' = 0
         /\ pauseStartRef' = NULL
         /\ ~isPaused']_vars

C35_Witness ==
    /\ currentDocumentIdRef # FirstDoc
    /\ currentDocumentIdRef = currentDocument
    /\ currentDocument # NoDoc
    /\ startTime = now
    /\ lastPageParams.time = now
    /\ history = <<>>
    /\ accumulatedPauseTime = 0
    /\ ~isPaused
    /\ invoked = 1
    /\ now > 4001

\* the local calendar day, numbered like the UTC days
localDay == (now + tzOffset) \div DAY_MS

\* the Monday-first index (0..6) of calendar day d
weekdayOf(d) == (d + 3) % 7

\* C36: the dates of one finalize are those of one local calendar day: the
\* lastActiveDate it stores is the local day, the daily summary it wrote is
\* the one of that day, and the weeklyData entry it adds to is the weekday of
\* that day.
C36_OneLocalDay ==
    [][global' # global
       => \E i \in 1..Len(flights) :
            /\ flights[i].pc = "updateGlobalAnalytics"
            /\ Len(flights') = Len(flights) - 1
            /\ LET prior == TheOne(flights[i].read).weeklyData
                   g == TheOne(global')
               IN  /\ g.lastActiveDate = localDay
                   /\ flights[i].today = localDay
                   /\ daily_summaries[localDay] # {}
                   /\ \A k \in 1..7 :
                        g.weeklyData[k] # prior[k]
                          => k = weekdayOf(g.lastActiveDate) + 1]_vars

\* C37: the lifetime totals only grow: every write of GlobalAnalytics stores
\* totals and a longest session that are at least the stored ones, and a
\* longest session at least as long as the session being aggregated.
C37_TotalsOnlyGrow ==
    [][(global # {} /\ global' # global) =>
         LET old == TheOne(global)
             new == TheOne(global')
         IN  /\ new.totalLifetimeReadingMs >= old.totalLifetimeReadingMs
             /\ new.totalLifetimePagesRead >= old.totalLifetimePagesRead
             /\ new.totalLifetimeSessions >= old.totalLifetimeSessions
             /\ new.longestSessionMs >= old.longestSessionMs
             /\ \A i \in 1..Len(flights) :
                   flights' = RemoveAt(flights, i)
                     => new.longestSessionMs >= flights[i].session.totalDurationMs]_vars

\* C38: every session record a finalize builds has a non-empty pageHistory and
\* pagesRead of at least 1; when the ledger is empty and the time since the
\* cursor was set is at most 1000 ms, the pageHistory is exactly one entry,
\* for the cursor's page, with the session's totalDurationMs as durationMs.
C38_FallbackEntry ==
    [][startsFinalize =>
         LET session == flights'[Len(flights')].session
             dwell == now - lastPageParams.time
         IN  /\ Len(session.pageHistory) >= 1
             /\ session.pagesRead >= 1
             /\ (history = <<>> /\ dwell <= CLOSING_NOISE_MS)
                  => session.pageHistory =
                       <<[page |-> lastPageParams.page,
                          durationMs |-> session.totalDurationMs,
                          visitCount |-> 1]>>]_vars

C38_Witness ==
    /\ Len(flights) = 1
    /\ history = <<>>
    /\ flights[1].session.endedAt - lastPageParams.time = CLOSING_NOISE_MS
    /\ flights[1].session.totalDurationMs = 5000
    /\ flights[1].session.pagesRead = 1
    /\ flights[1].session.pageHistory =
         <<[page |-> lastPageParams.page, durationMs |-> 5000, visitCount |-> 1]>>

\* C39: from a removeLastPage(d) or a clearAllLastPages() until the next call
\* made for d, getLastPage(d) is the default 1.
C39_RemovalIsFinal ==
    \A d \in Docs :
       lastOp[d].op \in {"remove", "clear"} => getLastPage(d) = 1

====
